---- MODULE Spec2Model ----
(***************************************************************************)
(* The job broker of ds-task-queue (final revision of main, kept in        *)
(* src/scripts/enqueue_spam.sh lines 396-860): the in-memory job store,    *)
(* the idempotency registry, the /enqueue, /poll, /ack and /fail handlers, *)
(* the long-poll condition variable with its deadline timers, and the      *)
(* lease sweeper.  Every HTTP request runs on its own goroutine; a step of *)
(* the model is one critical section of one goroutine.                     *)
(***************************************************************************)
EXTENDS Integers, Sequences, FiniteSets, TLC

\* ---------------------------------------------------------------- bounds
MaxLeaseID == 3      \* a job is not leased again once its LeaseID reaches this
MaxTime == 35        \* the clock stops advancing here
MaxAttempts == 70    \* the largest attempts value handed to retryDelaySeconds alone
MaxTimeLong == 95    \* where the clock stops when leases are left to expire in turn

\* ------------------------------------------------------ program constants
LeaseDuration == 30  \* job.LeaseExpiresAt = now + 30
PollTimeout == 30    \* timeout := 30 * time.Second
DefaultMaxTries == 3 \* MaxTries: 3
base == 5            \* const base int64 = 5
capDelay == 30       \* const capDelay int64 = 30

StateQueued == "QUEUED"
StateLeased == "LEASED"
StateDone == "DONE"
StateDead == "DEAD"
PENDING == "PENDING"

\* ------------------------------------------------------------ input sets
Workers == {"w1", "w2"}          \* worker_id values (non-empty)
Keys == {"", "k1", "k2"}         \* Idempotency-Key header, "" = absent
Payloads == {"a", "b"}           \* payload of a request body that decodes
Malformed == "{"                 \* a request body that does not decode
Bodies == Payloads \cup {Malformed}
Enqueuers == {"e1", "e2"}        \* goroutines serving /enqueue, one request at a time each
Pollers == {"p1", "p2"}          \* goroutines serving /poll, one request at a time each
LeaseIDs == 0..MaxLeaseID        \* lease_id values a request may carry
SweepLag == {0, 5}               \* seconds between the sweeper's clock read and its Lock
TickSteps == {5, 30}             \* seconds by which the clock is seen to advance
NoSuchJob == "j0"                \* a job_id that is never allocated
AttemptsArgs == -2..MaxAttempts  \* attempts values handed to retryDelaySeconds alone

\* uuid.NewString(): the ids it hands out, in the order of allocation
uuids == <<"j1", "j2">>

JobIDs == {uuids[n] : n \in DOMAIN uuids}

VARIABLES
  now,          \* time.Now().Unix()
  jobs,         \* jobs: map id -> *Job
  idem,         \* idem: map idempotency key -> job id or "PENDING"
  jobsMu,       \* the enqueue goroutine holding jobsMu across steps, or ""
  waiters,      \* goroutines blocked in jobCond.Wait(), in the order of their Wait calls
  enq,          \* per /enqueue goroutine: position and request
  poll,         \* per /poll goroutine: position, request, deadline, timer
  last,         \* the response written by the step just taken, with its request
  enqueuedLog,  \* event=job_enqueued: job_id -> idempotency_key
  expiredLog    \* event=lease_expired: <<job_id, LeaseID of the revoked lease>>

vars == <<now, jobs, idem, jobsMu, waiters, enq, poll, last, enqueuedLog, expiredLog>>

\* &Job{ID: id, Payload: req.Payload, State: StateQueued} without MaxTries
NewJobNoMaxTries(id, payload) ==
  [ID |-> id, Payload |-> payload, State |-> StateQueued,
   LeaseOwner |-> "", LeaseExpiresAt |-> 0, LeaseID |-> 0,
   Attempts |-> 0, MaxTries |-> 0, NextAvailableAt |-> 0]

\* &Job{ID: id, Payload: req.Payload, State: StateQueued, MaxTries: 3}
NewJob(id, payload) ==
  [ID |-> id, Payload |-> payload, State |-> StateQueued,
   LeaseOwner |-> "", LeaseExpiresAt |-> 0, LeaseID |-> 0,
   Attempts |-> 0, MaxTries |-> DefaultMaxTries, NextAvailableAt |-> 0]

\* op, and the request's fields; resp, and job/lease of the response body;
\* event, the state transition logged by the step
NoReq ==
  [op |-> "none", worker |-> "", key |-> "", body |-> "", job |-> "", lease |-> 0,
   resp |-> "", event |-> "", attempts |-> 0, delay |-> 0]

NewEnq == [pc |-> "idle", key |-> "", body |-> "", id |-> ""]

NewPoll == [pc |-> "idle", worker |-> "", deadline |-> 0, timer |-> FALSE]

Init ==
  /\ now = 0
  /\ jobs = <<>>
  /\ idem = <<>>
  /\ jobsMu = ""
  /\ waiters = <<>>
  /\ enq = [e \in Enqueuers |-> NewEnq]
  /\ poll = [q \in Pollers |-> NewPoll]
  /\ last = NoReq
  /\ enqueuedLog = <<>>
  /\ expiredLog = {}

\* ------------------------------------------------------------- map helpers
Put(m, k, v) == [x \in (DOMAIN m) \cup {k} |-> IF x = k THEN v ELSE m[x]]

Delete(m, k) == [x \in (DOMAIN m) \ {k} |-> m[x]]

\* ------------------------------------------------------------------ clock
Tick(d) ==
  /\ now + d <= MaxTime
  /\ now' = now + d
  /\ last' = NoReq
  /\ UNCHANGED <<jobs, idem, jobsMu, waiters, enq, poll, enqueuedLog, expiredLog>>

\* ------------------------------------------------- jobCond.Signal / Wait
\* Signal wakes one goroutine blocked in jobCond.Wait, if there is any:
\* sync.Cond serves its notify list in the order of the Wait calls, so the
\* poll woken is the one blocked longest ("" when nobody waits).
SignalTargets == IF waiters = <<>> THEN {""} ELSE {Head(waiters)}

Woken(p, q) == IF q = "" THEN p ELSE [p EXCEPT ![q].pc = "woken"]

\* ---------------------------------------------------------------- enqueue
\* requests past their reservation that will insert a job
InFlight == {f \in Enqueuers : enq[f].pc \in {"reserved", "inserted"} /\ enq[f].body \in Payloads}

\* reserve(key) that does not look for a committed id
ReserveForgetsCommitted(k) ==
  IF k # "" /\ k \in DOMAIN idem /\ idem[k] = PENDING THEN "IN_FLIGHT" ELSE "FRESH"

\* reserve(key) that does not look for the PENDING marker
ReserveIgnoresPending(k) ==
  IF k # "" /\ k \in DOMAIN idem /\ idem[k] # PENDING THEN "COMMITTED" ELSE "FRESH"

\* reserve(key) under idemMu
Reserve(k) ==
  IF k # "" /\ k \in DOMAIN idem /\ idem[k] # PENDING THEN "COMMITTED"
  ELSE IF k # "" /\ k \in DOMAIN idem /\ idem[k] = PENDING THEN "IN_FLIGHT"
  ELSE "FRESH"

\* First critical section of the handler: the idempotency reservation.  A
\* request that would need an id beyond the pool of uuids is not issued.
EnqReserve(e, k, body) ==
  /\ enq[e].pc = "idle"
  /\ LET r == Reserve(k)
         req == [NoReq EXCEPT !.op = "enqueue", !.key = k, !.body = body]
     IN
       /\ (r = "FRESH" /\ body \in Payloads) =>
             Cardinality(DOMAIN jobs) + Cardinality(InFlight) < Len(uuids)
       /\ enq' = IF r = "FRESH"
                 THEN [enq EXCEPT ![e] = [NewEnq EXCEPT !.pc = "reserved", !.key = k, !.body = body]]
                 ELSE enq
       /\ idem' = IF r = "FRESH" /\ k # "" THEN Put(idem, k, PENDING) ELSE idem
       /\ last' = IF r = "COMMITTED" THEN [req EXCEPT !.job = idem[k], !.resp = "OK"]
                  ELSE IF r = "IN_FLIGHT" THEN [req EXCEPT !.resp = "Conflict"]
                  ELSE NoReq
  /\ UNCHANGED <<now, jobs, jobsMu, waiters, poll, enqueuedLog, expiredLog>>

\* release(key) that leaves the registry as it is
ReleaseNothing(k) == idem

\* release(key) under idemMu
Release(k) ==
  IF k # "" /\ k \in DOMAIN idem /\ idem[k] = PENDING THEN Delete(idem, k) ELSE idem

\* The body does not decode: release the reservation, 400.
EnqReject(e) ==
  /\ enq[e].pc = "reserved"
  /\ enq[e].body \notin Payloads
  /\ idem' = Release(enq[e].key)
  /\ enq' = [enq EXCEPT ![e] = NewEnq]
  /\ last' = [NoReq EXCEPT !.op = "enqueue", !.key = enq[e].key, !.body = enq[e].body,
                           !.resp = "BadRequest"]
  /\ UNCHANGED <<now, jobs, jobsMu, waiters, poll, enqueuedLog, expiredLog>>

\* EnqInsert without jobCond.Signal()
EnqInsertNoSignal(e) ==
  /\ enq[e].pc = "reserved"
  /\ enq[e].body \in Payloads
  /\ jobsMu = ""
  /\ LET id == uuids[Cardinality(DOMAIN jobs) + 1] IN
       /\ jobs' = Put(jobs, id, NewJob(id, enq[e].body))
       /\ enq' = [enq EXCEPT ![e].pc = "inserted", ![e].id = id]
  /\ jobsMu' = e
  /\ last' = NoReq
  /\ UNCHANGED <<now, idem, waiters, poll, enqueuedLog, expiredLog>>

\* EnqInsert writing the id into the registry in place of the store
EnqInsertCommitsFirst(e) ==
  /\ enq[e].pc = "reserved"
  /\ enq[e].body \in Payloads
  /\ jobsMu = ""
  /\ LET id == uuids[Cardinality(DOMAIN jobs) + 1] IN
       /\ idem' = IF enq[e].key # "" THEN Put(idem, enq[e].key, id) ELSE idem
       /\ enq' = [enq EXCEPT ![e].pc = "inserted", ![e].id = id]
  /\ \E q \in SignalTargets :
       /\ waiters' = SelectSeq(waiters, LAMBDA x : x # q)
       /\ poll' = Woken(poll, q)
  /\ jobsMu' = e
  /\ last' = NoReq
  /\ UNCHANGED <<now, jobs, enqueuedLog, expiredLog>>

\* The body decodes: allocate the id, take jobsMu, insert, Signal.
EnqInsert(e) ==
  /\ enq[e].pc = "reserved"
  /\ enq[e].body \in Payloads
  /\ jobsMu = ""
  /\ LET id == uuids[Cardinality(DOMAIN jobs) + 1] IN
       /\ jobs' = Put(jobs, id, NewJob(id, enq[e].body))
       /\ enq' = [enq EXCEPT ![e].pc = "inserted", ![e].id = id]
  /\ \E q \in SignalTargets :
       /\ waiters' = SelectSeq(waiters, LAMBDA x : x # q)
       /\ poll' = Woken(poll, q)
  /\ jobsMu' = e
  /\ last' = NoReq
  /\ UNCHANGED <<now, idem, enqueuedLog, expiredLog>>

\* commit(key, id) that records the empty key as well
CommitEmptyKey(k, id) == Put(idem, k, id)

\* commit(key, id) that leaves the PENDING marker in place
CommitNothing(k, id) == idem

\* commit(key, id) under idemMu
Commit(k, id) == IF k # "" THEN Put(idem, k, id) ELSE idem

\* Still holding jobsMu: commit the key, log, respond, unlock (deferred).
EnqCommit(e) ==
  /\ enq[e].pc = "inserted"
  /\ jobsMu = e
  /\ idem' = Commit(enq[e].key, enq[e].id)
  /\ enqueuedLog' = Put(enqueuedLog, enq[e].id, enq[e].key)
  /\ enq' = [enq EXCEPT ![e] = NewEnq]
  /\ jobsMu' = ""
  /\ last' = [NoReq EXCEPT !.op = "enqueue", !.key = enq[e].key, !.body = enq[e].body,
                           !.job = enq[e].id, !.resp = "OK", !.event = "job_enqueued"]
  /\ UNCHANGED <<now, jobs, waiters, poll, expiredLog>>

\* ------------------------------------------------------------------- poll
\* Eligible that takes the zero NextAvailableAt of a new job for a time
EligibleNeedsSchedule(job, t) ==
  job.State = StateQueued /\ job.NextAvailableAt # 0 /\ job.NextAvailableAt <= t

\* Eligible that also takes a job somebody holds
EligibleWhileLeased(job, t) ==
  job.State \in {StateQueued, StateLeased} /\ (job.NextAvailableAt = 0 \/ job.NextAvailableAt <= t)

\* Eligible without the test of NextAvailableAt
EligibleIgnoresBackoff(job, t) == job.State = StateQueued

\* Eligible without the test for QUEUED
EligibleUnlessLeased(job, t) ==
  job.State # StateLeased /\ (job.NextAvailableAt = 0 \/ job.NextAvailableAt <= t)

Eligible(job, t) ==
  job.State = StateQueued /\ (job.NextAvailableAt = 0 \/ job.NextAvailableAt <= t)

\* Lease without job.LeaseID++
LeaseSameID(job, w, t) ==
  [job EXCEPT !.State = StateLeased, !.LeaseOwner = w, !.LeaseExpiresAt = t + LeaseDuration]

\* Lease that also resets the schedule left by an earlier fail
LeaseResetsSchedule(job, w, t) ==
  [job EXCEPT !.State = StateLeased, !.LeaseOwner = w,
              !.LeaseExpiresAt = t + LeaseDuration, !.LeaseID = job.LeaseID + 1,
              !.NextAvailableAt = 0]

Lease(job, w, t) ==
  [job EXCEPT !.State = StateLeased, !.LeaseOwner = w,
              !.LeaseExpiresAt = t + LeaseDuration, !.LeaseID = job.LeaseID + 1]

\* An iteration that sweeps expired leases itself before it answers 204
IterateSweepsOnTimeout(q, w, deadline) ==
  /\ jobsMu = ""
  /\ \A id \in DOMAIN jobs : Eligible(jobs[id], now) => jobs[id].LeaseID < MaxLeaseID
  /\ IF \E id \in DOMAIN jobs : Eligible(jobs[id], now)
     THEN \E id \in DOMAIN jobs :
            /\ Eligible(jobs[id], now)
            /\ jobs' = [jobs EXCEPT ![id] = Lease(jobs[id], w, now)]
            /\ poll' = [poll EXCEPT ![q] = NewPoll]
            /\ waiters' = waiters
            /\ last' = [NoReq EXCEPT !.op = "poll", !.worker = w, !.job = id,
                                     !.lease = jobs'[id].LeaseID, !.resp = "OK",
                                     !.event = "job_leased"]
     ELSE IF deadline - now <= 0
     THEN /\ poll' = [poll EXCEPT ![q] = NewPoll]
          /\ last' = [NoReq EXCEPT !.op = "poll", !.worker = w, !.resp = "NoContent"]
          /\ jobs' = [id \in DOMAIN jobs |->
                        IF jobs[id].State = StateLeased /\ jobs[id].LeaseExpiresAt <= now
                        THEN [jobs[id] EXCEPT !.State = StateQueued, !.LeaseOwner = "",
                                              !.LeaseExpiresAt = 0]
                        ELSE jobs[id]]
          /\ waiters' = waiters
     ELSE /\ poll' = [poll EXCEPT ![q] = [pc |-> "waiting", worker |-> w,
                                          deadline |-> deadline, timer |-> TRUE]]
          /\ waiters' = Append(waiters, q)
          /\ last' = NoReq
          /\ jobs' = jobs
  /\ UNCHANGED <<now, idem, jobsMu, enq, enqueuedLog, expiredLog>>

\* An iteration that looks at the deadline before it scans
IterateDeadlineFirst(q, w, deadline) ==
  /\ jobsMu = ""
  /\ \A id \in DOMAIN jobs : Eligible(jobs[id], now) => jobs[id].LeaseID < MaxLeaseID
  /\ IF deadline - now <= 0
     THEN /\ poll' = [poll EXCEPT ![q] = NewPoll]
          /\ last' = [NoReq EXCEPT !.op = "poll", !.worker = w, !.resp = "NoContent"]
          /\ UNCHANGED <<jobs, waiters>>
     ELSE IF \E id \in DOMAIN jobs : Eligible(jobs[id], now)
     THEN \E id \in DOMAIN jobs :
            /\ Eligible(jobs[id], now)
            /\ jobs' = [jobs EXCEPT ![id] = Lease(jobs[id], w, now)]
            /\ poll' = [poll EXCEPT ![q] = NewPoll]
            /\ waiters' = waiters
            /\ last' = [NoReq EXCEPT !.op = "poll", !.worker = w, !.job = id,
                                     !.lease = jobs'[id].LeaseID, !.resp = "OK",
                                     !.event = "job_leased"]
     ELSE /\ poll' = [poll EXCEPT ![q] = [pc |-> "waiting", worker |-> w,
                                          deadline |-> deadline, timer |-> TRUE]]
          /\ waiters' = Append(waiters, q)
          /\ last' = NoReq
          /\ jobs' = jobs
  /\ UNCHANGED <<now, idem, jobsMu, enq, enqueuedLog, expiredLog>>

\* One iteration of the handler's loop under jobsMu, for the request of
\* worker w with the given deadline: scan; lease and return, or return 204,
\* or arm the timer and Wait.
Iterate(q, w, deadline) ==
  /\ jobsMu = ""
  /\ \A id \in DOMAIN jobs : Eligible(jobs[id], now) => jobs[id].LeaseID < MaxLeaseID
  /\ IF \E id \in DOMAIN jobs : Eligible(jobs[id], now)
     THEN \E id \in DOMAIN jobs :
            /\ Eligible(jobs[id], now)
            /\ jobs' = [jobs EXCEPT ![id] = Lease(jobs[id], w, now)]
            /\ poll' = [poll EXCEPT ![q] = NewPoll]
            /\ waiters' = waiters
            /\ last' = [NoReq EXCEPT !.op = "poll", !.worker = w, !.job = id,
                                     !.lease = jobs'[id].LeaseID, !.resp = "OK",
                                     !.event = "job_leased"]
     ELSE IF deadline - now <= 0
     THEN /\ poll' = [poll EXCEPT ![q] = NewPoll]
          /\ last' = [NoReq EXCEPT !.op = "poll", !.worker = w, !.resp = "NoContent"]
          /\ UNCHANGED <<jobs, waiters>>
     ELSE /\ poll' = [poll EXCEPT ![q] = [pc |-> "waiting", worker |-> w,
                                          deadline |-> deadline, timer |-> TRUE]]
          /\ waiters' = Append(waiters, q)
          /\ last' = NoReq
          /\ jobs' = jobs
  /\ UNCHANGED <<now, idem, jobsMu, enq, enqueuedLog, expiredLog>>

\* A /poll request arrives: the deadline is fixed, jobsMu (free) is taken
\* and the first iteration runs.
PollStart(q, w) ==
  /\ poll[q].pc = "idle"
  /\ Iterate(q, w, now + PollTimeout)

\* A woken poll re-acquires jobsMu, stops its timer and iterates again.
\* timer.Stop() stops a timer whose time has not come; one that is due has
\* fired, and its callback gets jobsMu and signals (TimerFire) all the same.
PollResume(q) ==
  /\ poll[q].pc = "woken"
  /\ ~(poll[q].timer /\ now >= poll[q].deadline)
  /\ Iterate(q, poll[q].worker, poll[q].deadline)

\* The AfterFunc callback of poll q: Lock, Signal, Unlock.
TimerFire(q) ==
  /\ poll[q].timer
  /\ now >= poll[q].deadline
  /\ jobsMu = ""
  /\ \E t \in SignalTargets :
       /\ waiters' = SelectSeq(waiters, LAMBDA x : x # t)
       /\ poll' = [Woken(poll, t) EXCEPT ![q].timer = FALSE]
  /\ last' = NoReq
  /\ UNCHANGED <<now, jobs, idem, jobsMu, enq, enqueuedLog, expiredLog>>

\* ------------------------------------------------------------- ack / fail
\* Validate without the comparison of lease ids
ValidateNoFence(w, j, l) ==
  IF j \notin DOMAIN jobs THEN "NotFound"
  ELSE IF jobs[j].State = StateDone THEN "Done"
  ELSE IF jobs[j].State # StateLeased \/ jobs[j].LeaseOwner # w THEN "Conflict"
  ELSE IF jobs[j].LeaseExpiresAt <= now THEN "Conflict"
  ELSE "Valid"

\* Validate without the early return for DONE
ValidateNoDoneReturn(w, j, l) ==
  IF j \notin DOMAIN jobs THEN "NotFound"
  ELSE IF jobs[j].State # StateLeased \/ jobs[j].LeaseOwner # w THEN "Conflict"
  ELSE IF l # jobs[j].LeaseID THEN "Conflict"
  ELSE IF jobs[j].LeaseExpiresAt <= now THEN "Conflict"
  ELSE "Valid"

\* Validate refusing only lease ids newer than the job's
ValidateRejectsNewer(w, j, l) ==
  IF j \notin DOMAIN jobs THEN "NotFound"
  ELSE IF jobs[j].State = StateDone THEN "Done"
  ELSE IF jobs[j].State # StateLeased \/ jobs[j].LeaseOwner # w THEN "Conflict"
  ELSE IF l > jobs[j].LeaseID THEN "Conflict"
  ELSE IF jobs[j].LeaseExpiresAt <= now THEN "Conflict"
  ELSE "Valid"

\* The checks of the /ack handler, in the order of the code.
Validate(w, j, l) ==
  IF j \notin DOMAIN jobs THEN "NotFound"
  ELSE IF jobs[j].State = StateDone THEN "Done"
  ELSE IF jobs[j].State # StateLeased \/ jobs[j].LeaseOwner # w THEN "Conflict"
  ELSE IF l # jobs[j].LeaseID THEN "Conflict"
  ELSE IF jobs[j].LeaseExpiresAt <= now THEN "Conflict"
  ELSE "Valid"

\* the status written for each outcome of the checks
Status(v) == IF v \in {"Valid", "Done"} THEN "OK" ELSE v

\* MarkDone that leaves the lease fields as they are
MarkDoneKeepsOwner(job) == [job EXCEPT !.State = StateDone]

\* MarkDone that also resets the backoff of the job
MarkDoneResetsBackoff(job) ==
  [job EXCEPT !.State = StateDone, !.LeaseOwner = "", !.LeaseExpiresAt = 0,
              !.NextAvailableAt = 0]

MarkDone(job) ==
  [job EXCEPT !.State = StateDone, !.LeaseOwner = "", !.LeaseExpiresAt = 0]

\* an /ack that gives up the lease of the job it refuses
AckRefusedDropsLease(w, j, l) ==
  /\ jobsMu = ""
  /\ LET v == Validate(w, j, l) IN
       /\ jobs' = IF v = "Valid" THEN [jobs EXCEPT ![j] = MarkDone(jobs[j])]
                  ELSE IF v = "Conflict"
                  THEN [jobs EXCEPT ![j].LeaseOwner = "", ![j].LeaseExpiresAt = 0]
                  ELSE jobs
       /\ last' = [NoReq EXCEPT !.op = "ack", !.worker = w, !.job = j, !.lease = l,
                     !.resp = Status(v),
                     !.event = IF v = "Valid" THEN "job_acked"
                               ELSE IF v = "Conflict" THEN "ack_rejected" ELSE ""]
  /\ UNCHANGED <<now, idem, jobsMu, waiters, enq, poll, enqueuedLog, expiredLog>>

Ack(w, j, l) ==
  /\ jobsMu = ""
  /\ LET v == Validate(w, j, l) IN
       /\ jobs' = IF v = "Valid" THEN [jobs EXCEPT ![j] = MarkDone(jobs[j])] ELSE jobs
       /\ last' = [NoReq EXCEPT !.op = "ack", !.worker = w, !.job = j, !.lease = l,
                     !.resp = Status(v),
                     !.event = IF v = "Valid" THEN "job_acked"
                               ELSE IF v = "Conflict" THEN "ack_rejected" ELSE ""]
  /\ UNCHANGED <<now, idem, jobsMu, waiters, enq, poll, enqueuedLog, expiredLog>>

\* the checks of /fail without the early return for DONE
ValidateFailDoneConflict(w, j, l) ==
  IF j \notin DOMAIN jobs THEN "NotFound"
  ELSE IF jobs[j].State # StateLeased \/ jobs[j].LeaseOwner # w THEN "Conflict"
  ELSE IF l # jobs[j].LeaseID THEN "Conflict"
  ELSE IF jobs[j].LeaseExpiresAt <= now THEN "Conflict"
  ELSE "Valid"

\* The checks of the /fail handler, in the order of the code.
ValidateFail(w, j, l) ==
  IF j \notin DOMAIN jobs THEN "NotFound"
  ELSE IF jobs[j].State = StateDone THEN "Done"
  ELSE IF jobs[j].State # StateLeased \/ jobs[j].LeaseOwner # w THEN "Conflict"
  ELSE IF l # jobs[j].LeaseID THEN "Conflict"
  ELSE IF jobs[j].LeaseExpiresAt <= now THEN "Conflict"
  ELSE "Valid"

\* An int64 is held as the set of its one bits, bit 63 being the sign, so
\* that a shift keeps the width of the machine word.
Int64Bits == 0..63

\* the bits of a constant 0 <= n < 2^31
BitsOf(n) == {b \in 0..30 : (n \div 2^b) % 2 = 1}

\* x << s on an int64: the bits shifted past bit 63 are lost, s >= 64 gives 0
ShiftLeft(bits, s) == {b + s : b \in bits} \cap Int64Bits

Negative(bits) == 63 \in bits

\* delay > capDelay, signed
GreaterThanCap(bits) ==
  ~Negative(bits) /\ \A n \in 0..capDelay : BitsOf(n) # bits

\* RetryWindow that shifts by attempts instead of attempts-1
RetryWindowShiftsByAttempts(attempts) ==
  LET a == IF attempts < 1 THEN 1 ELSE attempts
      delay == ShiftLeft(BitsOf(base), a)
  IN  IF GreaterThanCap(delay) THEN BitsOf(capDelay) ELSE delay

\* delay after the cap: base << int64(attempts-1), cut to capDelay
RetryWindow(attempts) ==
  LET a == IF attempts < 1 THEN 1 ELSE attempts
      delay == ShiftLeft(BitsOf(base), a - 1)
  IN  IF GreaterThanCap(delay) THEN BitsOf(capDelay) ELSE delay

\* the value of an int64 in 0..capDelay
ValueOf(bits) == CHOOSE n \in 0..capDelay : BitsOf(n) = bits

\* rand.Int63n(n): the draws followed
Int63n(n) == {0, n \div 2, n - 1}

\* rand.Int63n(delay + 1) panics when delay + 1 <= 0
Int63nPanics(attempts) == Negative(RetryWindow(attempts))

\* the values retryDelaySeconds can return; none when it panics
retryDelaySeconds(attempts) ==
  IF Int63nPanics(attempts) THEN {}
  ELSE Int63n(ValueOf(RetryWindow(attempts)) + 1)

\* job.Attempts++
RecordFailure(job) == [job EXCEPT !.Attempts = job.Attempts + 1]

\* job.Attempts > job.MaxTries
ExhaustedLate(job) == job.Attempts > job.MaxTries

\* job.Attempts >= job.MaxTries
Exhausted(job) == job.Attempts >= job.MaxTries

MarkDead(job) ==
  [job EXCEPT !.State = StateDead, !.LeaseOwner = "", !.LeaseExpiresAt = 0,
              !.NextAvailableAt = 0]

Retry(job, t, delay) ==
  [job EXCEPT !.State = StateQueued, !.LeaseOwner = "", !.LeaseExpiresAt = 0,
              !.NextAvailableAt = t + delay]

Fail(w, j, l) ==
  /\ jobsMu = ""
  /\ LET v == ValidateFail(w, j, l)
         req == [NoReq EXCEPT !.op = "fail", !.worker = w, !.job = j, !.lease = l,
                              !.resp = Status(v)]
     IN
       IF v # "Valid"
       THEN /\ jobs' = jobs
            /\ last' = req
       ELSE LET failed == RecordFailure(jobs[j])
                done == [req EXCEPT !.attempts = failed.Attempts]
            IN
            IF Exhausted(failed)
            THEN /\ jobs' = [jobs EXCEPT ![j] = MarkDead(failed)]
                 /\ last' = [done EXCEPT !.event = "job_dead"]
            ELSE IF Int63nPanics(failed.Attempts)
            THEN /\ jobs' = [jobs EXCEPT ![j] = failed]
                 /\ last' = [done EXCEPT !.resp = "panic", !.event = "job_failed"]
            ELSE \E delay \in retryDelaySeconds(failed.Attempts) :
                   /\ jobs' = [jobs EXCEPT ![j] = Retry(failed, now, delay)]
                   /\ last' = [done EXCEPT !.event = "job_retry_scheduled",
                                           !.delay = delay]
  /\ UNCHANGED <<now, idem, jobsMu, waiters, enq, poll, enqueuedLog, expiredLog>>

\* ---------------------------------------------------------------- sweeper
Expired(job, t) ==
  job.State = StateLeased /\ job.LeaseExpiresAt > 0 /\ job.LeaseExpiresAt <= t

\* Requeue that clears the lease fields and leaves job.State as it is
RequeueKeepsState(job) ==
  [job EXCEPT !.LeaseOwner = "", !.LeaseExpiresAt = 0, !.NextAvailableAt = 0]

\* Requeue that also advances the fencing token
RequeueBumpsLeaseID(job) ==
  [job EXCEPT !.State = StateQueued, !.LeaseOwner = "", !.LeaseExpiresAt = 0,
              !.NextAvailableAt = 0, !.LeaseID = job.LeaseID + 1]

\* Requeue that leaves the backoff of an earlier fail in place
RequeueKeepsBackoff(job) ==
  [job EXCEPT !.State = StateQueued, !.LeaseOwner = "", !.LeaseExpiresAt = 0]

\* Requeue that counts the expiry as a failed attempt
RequeueCountsAttempt(job) ==
  [job EXCEPT !.State = StateQueued, !.LeaseOwner = "", !.LeaseExpiresAt = 0,
              !.NextAvailableAt = 0, !.Attempts = job.Attempts + 1]

Requeue(job) ==
  [job EXCEPT !.State = StateQueued, !.LeaseOwner = "",
              !.LeaseExpiresAt = 0, !.NextAvailableAt = 0]

\* One pass of the sweeper goroutine: expireLeases(t) where t is the clock
\* value read before jobsMu was acquired.
expireLeases(t) ==
  /\ jobsMu = ""
  /\ jobs' = [id \in DOMAIN jobs |->
                IF Expired(jobs[id], t) THEN Requeue(jobs[id]) ELSE jobs[id]]
  /\ expiredLog' = expiredLog \cup
       {<<id, jobs[id].LeaseID>> : id \in {i \in DOMAIN jobs : Expired(jobs[i], t)}}
  /\ last' = NoReq
  /\ UNCHANGED <<now, idem, jobsMu, waiters, enq, poll, enqueuedLog>>

\* a sweeper whose clock reading runs ahead of the clock of the handlers
SweepReadsAhead == \E lag \in SweepLag : expireLeases(now + lag)

Sweep == \E lag \in SweepLag : now - lag >= 0 /\ expireLeases(now - lag)

\* ------------------------------------------------------------------- spec
Enqueue ==
  \/ \E e \in Enqueuers, k \in Keys, body \in Bodies : EnqReserve(e, k, body)
  \/ \E e \in Enqueuers : EnqReject(e)
  \/ \E e \in Enqueuers : EnqInsert(e)
  \/ \E e \in Enqueuers : EnqCommit(e)

Poll ==
  \/ \E q \in Pollers, w \in Workers : PollStart(q, w)
  \/ \E q \in Pollers : PollResume(q)
  \/ \E q \in Pollers : TimerFire(q)

AckFail(W, J, L) ==
  \/ \E w \in W, j \in J, l \in L : Ack(w, j, l)
  \/ \E w \in W, j \in J, l \in L : Fail(w, j, l)

Next ==
  \/ \E d \in TickSteps : Tick(d)
  \/ Enqueue
  \/ Poll
  \/ AckFail(Workers, JobIDs \cup {NoSuchJob}, LeaseIDs)
  \/ Sweep

Spec == Init /\ [][Next]_vars

\* One job, one poll at a time, every ack and fail request.
NextLease ==
  \/ \E d \in TickSteps : Tick(d)
  \/ EnqReserve("e1", "", "a") /\ jobs = <<>>
  \/ EnqInsert("e1")
  \/ EnqCommit("e1")
  \/ \E w \in Workers : PollStart("p1", w)
  \/ PollResume("p1")
  \/ TimerFire("p1")
  \/ AckFail(Workers, {"j1"}, LeaseIDs)
  \/ AckFail({"w1"}, {NoSuchJob}, {1})
  \/ Sweep

SpecLease == Init /\ [][NextLease]_vars

\* Two jobs and a coarse clock.
NextTwo ==
  \/ Tick(30)
  \/ EnqReserve("e1", "", "a")
  \/ EnqInsert("e1")
  \/ EnqCommit("e1")
  \/ \E w \in Workers : PollStart("p1", w)
  \/ PollResume("p1")
  \/ TimerFire("p1")
  \/ AckFail(Workers, JobIDs, {1, 2})
  \/ Sweep

SpecTwo == Init /\ [][NextTwo]_vars

\* One job and two concurrent polls, each slot polling for its own worker.
NextPoll ==
  \/ \E d \in TickSteps : Tick(d)
  \/ EnqReserve("e1", "", "a") /\ jobs = <<>>
  \/ EnqInsert("e1")
  \/ EnqCommit("e1")
  \/ PollStart("p1", "w1")
  \/ PollStart("p2", "w2")
  \/ \E q \in Pollers : PollResume(q)
  \/ \E q \in Pollers : TimerFire(q)
  \/ AckFail(Workers, {"j1"}, {1, 2})
  \/ Sweep

SpecPoll == Init /\ [][NextPoll]_vars

\* One job and two polling workers that never ack or fail: a lease ends
\* only by expiring.
NextDeliver ==
  \/ \E d \in TickSteps : Tick(d)
  \/ EnqReserve("e1", "", "a") /\ jobs = <<>>
  \/ EnqInsert("e1")
  \/ EnqCommit("e1")
  \/ PollStart("p1", "w1")
  \/ PollStart("p2", "w2")
  \/ \E q \in Pollers : PollResume(q)
  \/ \E q \in Pollers : TimerFire(q)
  \/ Sweep

SpecDeliver == Init /\ [][NextDeliver]_vars

\* What the runtime guarantees of these steps: the clock advances, the
\* sweeper goroutine runs every second, a handler that can take jobsMu goes
\* on, a timer that is due fires, and (the assumption of delivery) polls
\* keep arriving.
FairDeliver ==
  /\ WF_vars(\E d \in TickSteps : Tick(d))
  /\ WF_vars(Sweep)
  /\ WF_vars(EnqInsert("e1"))
  /\ WF_vars(EnqCommit("e1"))
  /\ \A q \in Pollers : WF_vars(PollResume(q)) /\ WF_vars(TimerFire(q))
  /\ WF_vars(PollStart("p1", "w1") \/ PollStart("p2", "w2"))

SpecDeliverFair == SpecDeliver /\ FairDeliver

\* Two jobs and two concurrent polls of either worker; leases end by ack
\* or by expiring.
NextExcl ==
  \/ Tick(30)
  \/ EnqReserve("e1", "", "a")
  \/ EnqInsert("e1")
  \/ EnqCommit("e1")
  \/ \E q \in Pollers, w \in Workers : PollStart(q, w)
  \/ \E q \in Pollers : PollResume(q)
  \/ \E q \in Pollers : TimerFire(q)
  \/ \E w \in Workers, j \in JobIDs : Ack(w, j, 1)
  \/ Sweep

SpecExcl == Init /\ [][NextExcl]_vars

\* Concurrent keyed enqueues; the jobs are leased and acked, the clock stands.
NextIdem ==
  \/ Enqueue
  \/ PollStart("p1", "w1")
  \/ PollResume("p1")
  \/ \E j \in JobIDs : Ack("w1", j, 1)

SpecIdem == Init /\ [][NextIdem]_vars

\* One job enqueued under a key and two polling workers that never ack or
\* fail: polls lease, wait, time out; leases expire.
NextWait ==
  \/ \E d \in TickSteps : Tick(d)
  \/ EnqReserve("e1", "k1", "a") /\ jobs = <<>>
  \/ EnqInsert("e1")
  \/ EnqCommit("e1")
  \/ PollStart("p1", "w1")
  \/ PollStart("p2", "w2")
  \/ \E q \in Pollers : PollResume(q)
  \/ \E q \in Pollers : TimerFire(q)
  \/ Sweep

SpecWait == Init /\ [][NextWait]_vars

\* Two jobs enqueued under keys, leased by either worker, and acks and
\* fails of any worker for either job or for a job that does not exist,
\* between two passes of the sweeper.
NextHandle ==
  \/ Tick(30)
  \/ EnqReserve("e1", IF jobs = <<>> THEN "k1" ELSE "k2", "a")
  \/ EnqInsert("e1")
  \/ EnqCommit("e1")
  \/ \E w \in Workers : PollStart("p1", w)
  \/ PollResume("p1")
  \/ TimerFire("p1")
  \/ AckFail(Workers, JobIDs, {1, 2})
  \/ AckFail({"w1"}, {NoSuchJob}, {1})

SpecHandle == Init /\ [][NextHandle]_vars

\* Two jobs, one worker and a fine clock: leases end by ack, by fail or by
\* running out, and the sweeper re-queues them with its lag.
NextSweep ==
  \/ \E d \in TickSteps : Tick(d)
  \/ EnqReserve("e1", "", "a")
  \/ EnqInsert("e1")
  \/ EnqCommit("e1")
  \/ PollStart("p1", "w1")
  \/ PollResume("p1")
  \/ TimerFire("p1")
  \/ AckFail({"w1"}, JobIDs, {1})
  \/ Sweep

SpecSweep == Init /\ [][NextSweep]_vars

\* The clock seen to advance by a whole lease duration, over a span that
\* holds several leases one after the other.
TickLong ==
  /\ now + LeaseDuration <= MaxTimeLong
  /\ now' = now + LeaseDuration
  /\ last' = NoReq
  /\ UNCHANGED <<jobs, idem, jobsMu, waiters, enq, poll, enqueuedLog, expiredLog>>

\* Two jobs and one worker that lets leases run out, over several lease
\* durations: a job is leased, expires, is re-queued and leased again.
NextExpire ==
  \/ TickLong
  \/ EnqReserve("e1", "", "a")
  \/ EnqInsert("e1")
  \/ EnqCommit("e1")
  \/ PollStart("p1", "w1")
  \/ PollResume("p1")
  \/ TimerFire("p1")
  \/ AckFail({"w1"}, JobIDs, {1})
  \/ Sweep

SpecExpire == Init /\ [][NextExpire]_vars

\* Concurrent keyed enqueues among polls, acks, fails, sweeper passes and a
\* moving clock.
NextResolve ==
  \/ Tick(30)
  \/ \E e \in Enqueuers, k \in {"k1", "k2"}, body \in {"a", Malformed} : EnqReserve(e, k, body)
  \/ \E e \in Enqueuers : EnqReject(e)
  \/ \E e \in Enqueuers : EnqInsert(e)
  \/ \E e \in Enqueuers : EnqCommit(e)
  \/ PollStart("p1", "w1")
  \/ PollResume("p1")
  \/ TimerFire("p1")
  \/ AckFail({"w1"}, JobIDs, {1})
  \/ Sweep

SpecResolve == Init /\ [][NextResolve]_vars

\* A handler past its reservation goes on: the body is read, then jobsMu,
\* which every holder gives back, is acquired, and the deferred Unlock runs.
FairResolve ==
  \A e \in Enqueuers :
    /\ WF_vars(EnqReject(e))
    /\ WF_vars(EnqInsert(e))
    /\ WF_vars(EnqCommit(e))

SpecResolveFair == SpecResolve /\ FairResolve

\* The /enqueue handler of a keyed request step by step of its locks: each
\* Lock and the section up to its Unlock is a step of its own.  A request
\* at "reserving", "releasing" or "committing" holds idemMu.
IdemMuHolders ==
  {e \in Enqueuers : enq[e].pc \in {"reserving", "releasing", "committing"}}

\* idemMu.Lock() of the reservation
LockIdemReserve(e, k, body) ==
  /\ enq[e].pc = "idle"
  /\ k # ""
  /\ IdemMuHolders = {}
  /\ body \in Payloads =>
       Cardinality(DOMAIN jobs)
         + Cardinality({f \in Enqueuers : enq[f].pc # "idle" /\ enq[f].body \in Payloads})
         < Len(uuids)
  /\ enq' = [enq EXCEPT ![e] = [NewEnq EXCEPT !.pc = "reserving", !.key = k, !.body = body]]
  /\ last' = NoReq
  /\ UNCHANGED <<now, jobs, idem, jobsMu, waiters, poll, enqueuedLog, expiredLog>>

\* the reservation that looks into the job store under idemMu
ReserveUnlockNeedsStore(e) ==
  /\ enq[e].pc = "reserving"
  /\ jobsMu = ""
  /\ LET k == enq[e].key
         r == Reserve(k)
         req == [NoReq EXCEPT !.op = "enqueue", !.key = k, !.body = enq[e].body]
     IN
       /\ enq' = IF r = "FRESH" THEN [enq EXCEPT ![e].pc = "reserved"]
                 ELSE [enq EXCEPT ![e] = NewEnq]
       /\ idem' = IF r = "FRESH" THEN Put(idem, k, PENDING) ELSE idem
       /\ last' = IF r = "COMMITTED" THEN [req EXCEPT !.job = idem[k], !.resp = "OK"]
                  ELSE IF r = "IN_FLIGHT" THEN [req EXCEPT !.resp = "Conflict"]
                  ELSE NoReq
  /\ UNCHANGED <<now, jobs, jobsMu, waiters, poll, enqueuedLog, expiredLog>>

\* the lookup, the answer or the PENDING marker, idemMu.Unlock()
ReserveUnlock(e) ==
  /\ enq[e].pc = "reserving"
  /\ LET k == enq[e].key
         r == Reserve(k)
         req == [NoReq EXCEPT !.op = "enqueue", !.key = k, !.body = enq[e].body]
     IN
       /\ enq' = IF r = "FRESH" THEN [enq EXCEPT ![e].pc = "reserved"]
                 ELSE [enq EXCEPT ![e] = NewEnq]
       /\ idem' = IF r = "FRESH" THEN Put(idem, k, PENDING) ELSE idem
       /\ last' = IF r = "COMMITTED" THEN [req EXCEPT !.job = idem[k], !.resp = "OK"]
                  ELSE IF r = "IN_FLIGHT" THEN [req EXCEPT !.resp = "Conflict"]
                  ELSE NoReq
  /\ UNCHANGED <<now, jobs, jobsMu, waiters, poll, enqueuedLog, expiredLog>>

\* the body does not decode: idemMu.Lock() of the release
LockIdemRelease(e) ==
  /\ enq[e].pc = "reserved"
  /\ enq[e].body \notin Payloads
  /\ IdemMuHolders = {}
  /\ enq' = [enq EXCEPT ![e].pc = "releasing"]
  /\ last' = NoReq
  /\ UNCHANGED <<now, jobs, idem, jobsMu, waiters, poll, enqueuedLog, expiredLog>>

\* delete the PENDING marker, idemMu.Unlock(), 400
ReleaseUnlock(e) ==
  /\ enq[e].pc = "releasing"
  /\ idem' = Release(enq[e].key)
  /\ enq' = [enq EXCEPT ![e] = NewEnq]
  /\ last' = [NoReq EXCEPT !.op = "enqueue", !.key = enq[e].key, !.body = enq[e].body,
                           !.resp = "BadRequest"]
  /\ UNCHANGED <<now, jobs, jobsMu, waiters, poll, enqueuedLog, expiredLog>>

\* holding jobsMu since the insert: idemMu.Lock() of the commit
LockIdemCommit(e) ==
  /\ enq[e].pc = "inserted"
  /\ jobsMu = e
  /\ IdemMuHolders = {}
  /\ enq' = [enq EXCEPT ![e].pc = "committing"]
  /\ last' = NoReq
  /\ UNCHANGED <<now, jobs, idem, jobsMu, waiters, poll, enqueuedLog, expiredLog>>

\* idem[key] = id, idemMu.Unlock(), log, respond, deferred jobsMu.Unlock()
CommitUnlock(e) ==
  /\ enq[e].pc = "committing"
  /\ jobsMu = e
  /\ idem' = Commit(enq[e].key, enq[e].id)
  /\ enqueuedLog' = Put(enqueuedLog, enq[e].id, enq[e].key)
  /\ enq' = [enq EXCEPT ![e] = NewEnq]
  /\ jobsMu' = ""
  /\ last' = [NoReq EXCEPT !.op = "enqueue", !.key = enq[e].key, !.body = enq[e].body,
                           !.job = enq[e].id, !.resp = "OK", !.event = "job_enqueued"]
  /\ UNCHANGED <<now, jobs, waiters, poll, expiredLog>>

\* Two keyed enqueues lock by lock, beside a long poll, acks and fails of the
\* first job, sweeper passes and a moving clock.
NextLocks ==
  \/ Tick(30)
  \/ \E e \in Enqueuers, k \in {"k1", "k2"}, body \in {"a", Malformed} :
       LockIdemReserve(e, k, body)
  \/ \E e \in Enqueuers : ReserveUnlock(e)
  \/ \E e \in Enqueuers : LockIdemRelease(e)
  \/ \E e \in Enqueuers : ReleaseUnlock(e)
  \/ \E e \in Enqueuers : EnqInsert(e)
  \/ \E e \in Enqueuers : LockIdemCommit(e)
  \/ \E e \in Enqueuers : CommitUnlock(e)
  \/ PollStart("p1", "w1")
  \/ PollResume("p1")
  \/ TimerFire("p1")
  \/ AckFail({"w1"}, {"j1"}, {1})
  \/ Sweep

SpecLocks == Init /\ [][NextLocks]_vars

\* A section under a lock ends (weak fairness), and a goroutine that waits in
\* Lock() gets the lock although others take it in between (strong
\* fairness): sync.Mutex hands a starving waiter the lock directly.
FairLocks ==
  \A e \in Enqueuers :
    /\ WF_vars(ReserveUnlock(e))
    /\ SF_vars(LockIdemRelease(e))
    /\ WF_vars(ReleaseUnlock(e))
    /\ SF_vars(EnqInsert(e))
    /\ SF_vars(LockIdemCommit(e))
    /\ WF_vars(CommitUnlock(e))

SpecLocksFair == SpecLocks /\ FairLocks

\* retryDelaySeconds on its own: a call with any attempts value, then its outcome
InitDelay ==
  /\ now = 0
  /\ jobs = <<>>
  /\ idem = <<>>
  /\ jobsMu = ""
  /\ waiters = <<>>
  /\ enq = [e \in Enqueuers |-> NewEnq]
  /\ poll = [q \in Pollers |-> NewPoll]
  /\ enqueuedLog = <<>>
  /\ expiredLog = {}
  /\ \E attempts \in AttemptsArgs :
       last = [NoReq EXCEPT !.op = "call", !.attempts = attempts]

RetryDelayReturn ==
  /\ last.op = "call"
  /\ \E delay \in retryDelaySeconds(last.attempts) :
       last' = [last EXCEPT !.op = "retryDelaySeconds", !.resp = "return",
                            !.delay = delay]
  /\ UNCHANGED <<now, jobs, idem, jobsMu, waiters, enq, poll, enqueuedLog, expiredLog>>

RetryDelayPanic ==
  /\ last.op = "call"
  /\ Int63nPanics(last.attempts)
  /\ last' = [last EXCEPT !.op = "retryDelaySeconds", !.resp = "panic"]
  /\ UNCHANGED <<now, jobs, idem, jobsMu, waiters, enq, poll, enqueuedLog, expiredLog>>

NextDelay == RetryDelayReturn \/ RetryDelayPanic

SpecDelay == InitDelay /\ [][NextDelay]_vars

\* ----------------------------------------------------------------- claims
\* the step just taken wrote the response of an /ack or a /fail
AckOrFail(r) == r.op \in {"ack", "fail"}

\* C1: an ack or fail changes a job's record only if, when it is processed,
\* the job is LEASED, its LeaseOwner is the request's worker_id, its LeaseID
\* is the request's lease_id and its lease has not expired; it changes no
\* other job.
C1_OnlyHolderMutates ==
  [][\A j \in DOMAIN jobs :
       (AckOrFail(last') /\ jobs'[j] # jobs[j]) =>
          /\ last'.job = j
          /\ jobs[j].State = StateLeased
          /\ jobs[j].LeaseOwner = last'.worker
          /\ jobs[j].LeaseID = last'.lease
          /\ jobs[j].LeaseExpiresAt > now]_vars

\* the second holder of a re-queued job has just acked it with lease_id 2
C1_Witness ==
  /\ last.op = "ack"
  /\ last.event = "job_acked"
  /\ last.lease = 2
  /\ <<last.job, 1>> \in expiredLog
  /\ jobs[last.job].State = StateDone

\* C2: a job's lease_id is 0 when the job is created, goes up by exactly 1
\* in the poll that leases the job (the response carries the new value, 1
\* for the first lease) and is left alone by every other step: enqueue, ack,
\* fail, sweeper, and polls that lease another job or none.
C2_LeaseIDCounts ==
  [][\A j \in DOMAIN jobs' :
       IF j \notin DOMAIN jobs THEN jobs'[j].LeaseID = 0
       ELSE IF last'.op = "poll" /\ last'.resp = "OK" /\ last'.job = j
       THEN /\ jobs'[j].LeaseID = jobs[j].LeaseID + 1
            /\ last'.lease = jobs'[j].LeaseID
            /\ last'.lease >= 1
       ELSE jobs'[j].LeaseID = jobs[j].LeaseID]_vars

\* j2 has just been leased for the second time, after its first lease was
\* revoked by the sweeper, while j1 keeps the id of its only lease
C2_Witness ==
  /\ last.op = "poll"
  /\ last.job = "j2"
  /\ last.lease = 2
  /\ <<"j2", 1>> \in expiredLog
  /\ jobs["j1"].LeaseID = 1

\* C3: once the sweeper has revoked lease L of a job, an ack or fail that
\* carries L never changes the job (it is answered Conflict unless the job
\* is DONE by then), whatever happened to the job since; an ack by the
\* holder of the job's current, unexpired lease takes effect.
C3_RevokedLeaseIsFenced ==
  [][\A j \in DOMAIN jobs :
       /\ (AckOrFail(last') /\ last'.job = j /\ <<j, last'.lease>> \in expiredLog) =>
             /\ jobs'[j] = jobs[j]
             /\ jobs[j].State # StateDone => last'.resp = "Conflict"
       /\ ( /\ last'.op = "ack" /\ last'.job = j
            /\ \E x \in expiredLog : x[1] = j
            /\ jobs[j].State = StateLeased
            /\ jobs[j].LeaseOwner = last'.worker
            /\ jobs[j].LeaseID = last'.lease
            /\ jobs[j].LeaseExpiresAt > now ) =>
             /\ jobs'[j].State = StateDone
             /\ last'.resp = "OK"]_vars

\* the worker whose lease was revoked holds the job again under a newer
\* lease and has just acked with the revoked lease_id: Conflict
C3_Witness ==
  /\ last.op = "ack"
  /\ last.resp = "Conflict"
  /\ <<last.job, last.lease>> \in expiredLog
  /\ jobs[last.job].State = StateLeased
  /\ jobs[last.job].LeaseOwner = last.worker
  /\ jobs[last.job].LeaseID = last.lease + 1
  /\ jobs[last.job].LeaseExpiresAt > now

JobsFor(k) ==
  {j \in DOMAIN enqueuedLog : enqueuedLog[j] = k} \cup
  {enq[e].id : e \in {f \in Enqueuers : enq[f].pc = "inserted" /\ enq[f].key = k}}

\* the requests that hold the reservation of key k
Holders(k) == {e \in Enqueuers : enq[e].pc \in {"reserved", "inserted"} /\ enq[e].key = k}

\* C5: for every idempotency key at most one job is ever created, every
\* enqueue with the key that returns a job_id returns the id of that job,
\* and no step (a later enqueue with another payload included) changes the
\* payload of a stored job.
C5_OneJobPerKey ==
  /\ [](\A k \in Keys \ {""} :
         /\ Cardinality(JobsFor(k)) <= 1
         /\ (last.op = "enqueue" /\ last.key = k /\ last.resp = "OK") => JobsFor(k) = {last.job})
  /\ [][\A j \in DOMAIN jobs : jobs'[j].Payload = jobs[j].Payload]_vars

\* an enqueue with a committed key and another payload was answered with the
\* id of the job created first, whose payload is the first request's
C5_Witness ==
  /\ last.op = "enqueue"
  /\ last.resp = "OK"
  /\ last.event = ""
  /\ last.key = "k1"
  /\ last.body \in Payloads
  /\ last.job \in DOMAIN jobs
  /\ jobs[last.job].Payload # last.body

C7_CommittedKeysResolve ==
  /\ \A k \in DOMAIN idem : idem[k] # PENDING => idem[k] \in DOMAIN jobs
  /\ \A k1, k2 \in DOMAIN idem :
       (k1 # k2 /\ idem[k1] # PENDING /\ idem[k2] # PENDING) => idem[k1] # idem[k2]

\* two keys are committed
C7_Witness ==
  /\ DOMAIN idem = {"k1", "k2"}
  /\ \A k \in DOMAIN idem : idem[k] # PENDING

\* C8: a job enters the store QUEUED, put there by an enqueue; afterwards its
\* state changes only QUEUED to LEASED by the poll that returns it, LEASED to
\* DONE by an ack of it, LEASED to QUEUED by a fail of it that leaves
\* attempts < max_tries, LEASED to DEAD by a fail of it, or LEASED to QUEUED
\* by the sweeper pass that records the lease as expired.
C8_OnlyAllowedTransitions ==
  [][\A j \in JobIDs \cup {NoSuchJob} :
       IF j \notin DOMAIN jobs
       THEN j \in DOMAIN jobs' =>
              /\ jobs'[j].State = StateQueued
              /\ \E e \in Enqueuers :
                   enq[e].pc = "reserved" /\ enq'[e].pc = "inserted" /\ enq'[e].id = j
       ELSE /\ j \in DOMAIN jobs'
            /\ jobs'[j].State # jobs[j].State =>
                 \/ /\ jobs[j].State = StateQueued /\ jobs'[j].State = StateLeased
                    /\ last'.op = "poll" /\ last'.resp = "OK" /\ last'.job = j
                 \/ /\ jobs[j].State = StateLeased /\ jobs'[j].State = StateDone
                    /\ last'.op = "ack" /\ last'.resp = "OK" /\ last'.job = j
                 \/ /\ jobs[j].State = StateLeased /\ jobs'[j].State = StateQueued
                    /\ last'.op = "fail" /\ last'.resp = "OK" /\ last'.job = j
                    /\ jobs'[j].Attempts < jobs'[j].MaxTries
                 \/ /\ jobs[j].State = StateLeased /\ jobs'[j].State = StateDead
                    /\ last'.op = "fail" /\ last'.resp = "OK" /\ last'.job = j
                 \/ /\ jobs[j].State = StateLeased /\ jobs'[j].State = StateQueued
                    /\ last'.op = "none"
                    /\ <<j, jobs[j].LeaseID>> \in expiredLog' \ expiredLog]_vars

\* a job was enqueued, leased and failed back to QUEUED twice, and the third
\* fail has just made it DEAD
C8_Witness ==
  /\ last.op = "fail"
  /\ last.event = "job_dead"
  /\ last.job \in DOMAIN jobs
  /\ jobs[last.job].State = StateDead
  /\ jobs[last.job].LeaseID = 3

\* C9: the record of a job that is DONE or DEAD is left as it is by every
\* step: poll, ack, fail, sweeper pass and enqueue; the job stays in the
\* store and is not leased again.
C9_TerminalIsFrozen ==
  [][\A j \in DOMAIN jobs :
       jobs[j].State \in {StateDone, StateDead} =>
         j \in DOMAIN jobs' /\ jobs'[j] = jobs[j]]_vars

\* the only job is DEAD and a poll has returned 204 at its deadline
C9_Witness ==
  /\ last.op = "poll"
  /\ last.resp = "NoContent"
  /\ "j1" \in DOMAIN jobs
  /\ jobs["j1"].State = StateDead

\* C10: a job is LEASED iff its lease_owner is non-empty and its
\* lease_expires_at is positive, and a job that is not LEASED has an empty
\* lease_owner and lease_expires_at = 0.
C10_LeaseFieldsMatchState ==
  \A j \in DOMAIN jobs :
    /\ jobs[j].State = StateLeased <=> (jobs[j].LeaseOwner # "" /\ jobs[j].LeaseExpiresAt > 0)
    /\ jobs[j].State # StateLeased => (jobs[j].LeaseOwner = "" /\ jobs[j].LeaseExpiresAt = 0)

\* a job that was leased and acked is DONE with its lease fields cleared
C10_Witness ==
  /\ last.op = "ack"
  /\ last.event = "job_acked"
  /\ jobs[last.job].State = StateDone
  /\ jobs[last.job].LeaseOwner = ""
  /\ jobs[last.job].LeaseExpiresAt = 0

\* C11: in the state every step leads to (the store is empty at first),
\* attempts <= max_tries for every job; a job is DEAD exactly when
\* attempts = max_tries, so QUEUED, LEASED and DONE jobs have attempts <
\* max_tries; attempts changes only by 1, in a fail answered Success that
\* records the failure, and every such fail changes it: at most max_tries
\* fails are ever recorded for one job.
C11_AttemptsBounded ==
  /\ [][\A j \in DOMAIN jobs' :
         /\ jobs'[j].Attempts <= jobs'[j].MaxTries
         /\ jobs'[j].State = StateDead <=> jobs'[j].Attempts = jobs'[j].MaxTries
         /\ jobs'[j].State \in {StateQueued, StateLeased} =>
              jobs'[j].Attempts < jobs'[j].MaxTries]_vars
  /\ [][/\ \A j \in DOMAIN jobs :
            jobs'[j].Attempts # jobs[j].Attempts =>
              /\ jobs'[j].Attempts = jobs[j].Attempts + 1
              /\ last'.op = "fail" /\ last'.job = j /\ last'.resp = "OK"
              /\ last'.event \in {"job_dead", "job_retry_scheduled"}
        /\ (last'.op = "fail" /\ last'.event \in {"job_dead", "job_retry_scheduled"}) =>
              jobs'[last'.job].Attempts = jobs[last'.job].Attempts + 1
        /\ \A j \in DOMAIN jobs : jobs'[j].MaxTries = jobs[j].MaxTries]_vars

\* max_tries fails were recorded for a job, it is DEAD, and one more fail of
\* it by the last holder with the last lease_id was refused
C11_Witness ==
  /\ last.op = "fail"
  /\ last.resp = "Conflict"
  /\ last.job \in DOMAIN jobs
  /\ jobs[last.job].State = StateDead
  /\ jobs[last.job].Attempts = DefaultMaxTries
  /\ last.lease = jobs[last.job].LeaseID

\* C12: once a job has been acked (it is DONE), every fail request for it
\* is answered Conflict, and no ack or fail changes its record.
C12_FailAfterAckIsConflict ==
  /\ [](\A j \in DOMAIN jobs :
         (jobs[j].State = StateDone /\ last.op = "fail" /\ last.job = j) =>
            last.resp = "Conflict")
  /\ [][\A j \in DOMAIN jobs :
         (jobs[j].State = StateDone /\ AckOrFail(last') /\ last'.job = j) =>
            jobs'[j] = jobs[j]]_vars

\* C13: an ack of a job that is DONE is answered Success whatever its
\* worker_id and lease_id and leaves the store as it is, so a second ack
\* gives the store the first one gave.
C13_AckIdempotent ==
  [][(last'.op = "ack" /\ last'.job \in DOMAIN jobs /\ jobs[last'.job].State = StateDone) =>
       (last'.resp = "OK" /\ last'.event = "" /\ jobs' = jobs)]_vars

\* a DONE job was acked again, with a lease_id that is not the job's, and
\* the answer was Success
C13_Witness ==
  /\ last.op = "ack"
  /\ last.resp = "OK"
  /\ last.event = ""
  /\ last.job \in DOMAIN jobs
  /\ jobs[last.job].State = StateDone
  /\ last.lease # jobs[last.job].LeaseID
  /\ last.worker = "w2"

\* C14: a job becomes LEASED only in the step of the poll that returns it,
\* and at that step, under the lock, it is QUEUED with next_available_at = 0
\* or next_available_at <= now; a job in backoff, LEASED, DONE or DEAD is not
\* returned, whether the poll scans on arrival or after a wake-up.
C14_LeasesOnlyEligible ==
  [][/\ \A j \in DOMAIN jobs :
          (jobs'[j].State = StateLeased /\ jobs[j] # jobs'[j]) =>
             /\ last'.op = "poll" /\ last'.resp = "OK" /\ last'.job = j
             /\ jobs[j].State = StateQueued
             /\ (jobs[j].NextAvailableAt = 0 \/ jobs[j].NextAvailableAt <= now)
     /\ (last'.op = "poll" /\ last'.resp = "OK") =>
             /\ last'.job \in DOMAIN jobs
             /\ jobs[last'.job].State = StateQueued
             /\ (jobs[last'.job].NextAvailableAt = 0 \/ jobs[last'.job].NextAvailableAt <= now)
             /\ jobs'[last'.job].State = StateLeased]_vars

\* a job that was failed into backoff was leased again, by a poll that
\* scanned when its next_available_at had passed
C14_Witness ==
  /\ last.op = "poll"
  /\ last.resp = "OK"
  /\ jobs[last.job].Attempts >= 1
  /\ jobs[last.job].NextAvailableAt > 0
  /\ jobs[last.job].NextAvailableAt <= now
  /\ jobs[last.job].LeaseID >= 2

\* C15: no poll stays blocked past its deadline: while a poll is blocked
\* and its deadline has passed, the wake-up for it is still to come, that
\* is, the timer of some poll is yet to fire and signal.
C15_NoPollStuckPastDeadline ==
  \A q \in Pollers :
    (poll[q].pc = "waiting" /\ now >= poll[q].deadline) =>
       \E r \in Pollers : poll[r].timer

\* C16: the step of an enqueue that inserts a job while polls are blocked
\* wakes one of them; a woken poll that scans while a job is eligible (no
\* other poll took it first) leases it for its worker, whether or not its
\* deadline has come, and the lease of a job never leased before has
\* lease_id 1.
C16_EnqueueWakesPoll ==
  [][/\ (\E e \in Enqueuers : enq[e].pc = "reserved" /\ enq'[e].pc = "inserted") =>
          /\ waiters # <<>> =>
               \E q \in Pollers : poll[q].pc = "waiting" /\ poll'[q].pc = "woken"
          /\ \A j \in DOMAIN jobs' \ DOMAIN jobs :
               jobs'[j].State = StateQueued /\ jobs'[j].LeaseID = 0
     /\ \A q \in Pollers :
          (/\ poll[q].pc = "woken" /\ poll'[q].pc # "woken"
           /\ \E id \in DOMAIN jobs : Eligible(jobs[id], now)) =>
             /\ last'.op = "poll" /\ last'.resp = "OK"
             /\ last'.worker = poll[q].worker
             /\ last'.job \in DOMAIN jobs /\ Eligible(jobs[last'.job], now)
             /\ last'.lease = jobs[last'.job].LeaseID + 1
             /\ jobs'[last'.job].LeaseOwner = poll[q].worker
             /\ jobs'[last'.job].LeaseID = last'.lease]_vars

\* two polls were blocked, an enqueue has inserted a job and woken the one
\* blocked longest; the job is still QUEUED with lease_id 0
C16_Witness ==
  /\ \E e \in Enqueuers :
       /\ enq[e].pc = "inserted"
       /\ jobs[enq[e].id].State = StateQueued
       /\ jobs[enq[e].id].LeaseID = 0
  /\ poll["p1"].pc = "woken"
  /\ poll["p2"].pc = "waiting"
  /\ now < poll["p1"].deadline

\* the longest the clock read by a sweeper pass lags behind
MaxLag == CHOOSE l \in SweepLag : \A m \in SweepLag : m <= l

\* C17: a LEASED job does not stay LEASED: whether or not its holder acks
\* or fails, once its lease_expires_at has passed a sweeper pass makes it
\* QUEUED (for leases that expire while the clock still runs); the pass
\* leaves it without owner and eligible at once, so that the next poll to
\* scan, of any worker, leases it.
C17_LeaseExpires ==
  /\ \A j \in JobIDs :
       (j \in DOMAIN jobs /\ jobs[j].State = StateLeased
          /\ jobs[j].LeaseExpiresAt + MaxLag <= MaxTime)
       ~> (j \in DOMAIN jobs /\ jobs[j].State # StateLeased)
  /\ [][\A j \in DOMAIN jobs :
          <<j, jobs[j].LeaseID>> \in expiredLog' \ expiredLog =>
            /\ jobs[j].State = StateLeased
            /\ jobs[j].LeaseExpiresAt <= now
            /\ jobs'[j].State = StateQueued
            /\ jobs'[j].LeaseOwner = ""
            /\ Eligible(jobs'[j], now')]_vars

\* a lease of w1 was taken back by the sweeper and the job was then leased
\* to w2
C17_Witness ==
  /\ last.op = "poll"
  /\ last.resp = "OK"
  /\ last.worker = "w2"
  /\ <<last.job, last.lease - 1>> \in expiredLog
  /\ jobs[last.job].Attempts = 0
  /\ jobs[last.job].State = StateLeased

\* C18: every job in the store is eventually leased, given that polls keep
\* arriving, the clock advances and the sweeper keeps running.
C18_EventuallyLeased ==
  \A j \in JobIDs :
    (j \in DOMAIN jobs) ~> (j \in DOMAIN jobs /\ jobs[j].LeaseID >= 1)

\* the job was enqueued while both polls were blocked and has been leased
\* to the poll blocked longest, the other is blocked still
C18_Witness ==
  /\ last.op = "poll"
  /\ last.resp = "OK"
  /\ last.lease = 1
  /\ last.job \in DOMAIN enqueuedLog
  /\ \E q \in Pollers : poll[q].pc = "waiting"

\* C19: a successful poll leases exactly one job, one that nobody holds,
\* to its worker, under a lease_id greater than the job's before; lease_id
\* never goes down and a held job keeps its holder and lease_id until the
\* lease is given up or taken back: so a job has one holder at a time and no
\* two polls are given the same job with the same lease_id.
C19_LeaseExclusive ==
  [][/\ (last'.op = "poll" /\ last'.resp = "OK") =>
          /\ last'.job \in DOMAIN jobs
          /\ jobs[last'.job].State # StateLeased
          /\ jobs[last'.job].LeaseOwner = ""
          /\ jobs'[last'.job].State = StateLeased
          /\ jobs'[last'.job].LeaseOwner = last'.worker
          /\ jobs'[last'.job].LeaseID = last'.lease
          /\ last'.lease > jobs[last'.job].LeaseID
          /\ \A k \in DOMAIN jobs \ {last'.job} : jobs'[k] = jobs[k]
     /\ \A j \in DOMAIN jobs :
          /\ jobs'[j].LeaseID >= jobs[j].LeaseID
          /\ (jobs[j].LeaseOwner # "" /\ jobs'[j].LeaseOwner # "") =>
               /\ jobs'[j].LeaseOwner = jobs[j].LeaseOwner
               /\ jobs'[j].LeaseID = jobs[j].LeaseID]_vars

\* a job whose first lease expired has been leased a second time while the
\* other job is held by the other worker
C19_Witness ==
  /\ last.op = "poll"
  /\ last.resp = "OK"
  /\ last.lease = 2
  /\ DOMAIN jobs = JobIDs
  /\ \A j \in JobIDs : jobs[j].State = StateLeased
  /\ \E j \in JobIDs : jobs[j].LeaseOwner # last.worker

\* C20: a request that has reserved its key and whose body does not decode
\* is answered MalformedRequest in a step that creates no job and removes
\* the key's PENDING entry, the rest of the registry staying as it is; and
\* a request is answered from the registry (Conflict, or an existing id)
\* only for a key that has an entry, so that after the release a request
\* with the key is a fresh one.
C20_ParseFailureReleasesKey ==
  /\ [][/\ \A e \in Enqueuers :
             (enq[e].pc = "reserved" /\ enq[e].body \notin Payloads /\ enq'[e] # enq[e]) =>
                /\ enq'[e].pc = "idle"
                /\ last'.op = "enqueue" /\ last'.resp = "BadRequest"
                /\ last'.key = enq[e].key
                /\ jobs' = jobs
                /\ enq[e].key # "" =>
                     /\ idem[enq[e].key] = PENDING
                     /\ idem' = Delete(idem, enq[e].key)
        /\ (last'.op = "enqueue" /\ last'.resp = "BadRequest") =>
             \E e \in Enqueuers : enq[e].pc = "reserved" /\ enq'[e].pc = "idle"
        /\ (/\ last'.op = "enqueue"
            /\ last'.resp = "Conflict" \/ (last'.resp = "OK" /\ last'.event = "")) =>
             last'.key \in DOMAIN idem]_vars
  /\ [](last.op = "enqueue" /\ last.resp = "BadRequest" => last.key \notin DOMAIN idem)

\* a request with key k1 has just been answered MalformedRequest, no job
\* exists, and a request with k1 and a body that decodes can reserve k1
C20_Witness ==
  /\ last.op = "enqueue"
  /\ last.resp = "BadRequest"
  /\ last.key = "k1"
  /\ jobs = <<>>
  /\ ENABLED (EnqReserve("e2", "k1", "a") /\ enq'["e2"].pc = "reserved")

C22_NoJobPollChangesNothing ==
  [][/\ (last'.op = "poll" /\ last'.resp = "NoContent")
          => (jobs' = jobs /\ idem' = idem)
     /\ (\E q \in Pollers : poll[q].pc # "waiting" /\ poll'[q].pc = "waiting")
          => (jobs' = jobs /\ idem' = idem)]_vars

\* a poll has answered NoJobAvailable while the store holds a job whose
\* lease has run out and the registry holds its key
C22_Witness ==
  /\ last.op = "poll"
  /\ last.resp = "NoContent"
  /\ idem # <<>>
  /\ \E j \in DOMAIN jobs :
       jobs[j].State = StateLeased /\ jobs[j].LeaseExpiresAt <= now

\* C23: an ack or fail answered NotFound or Conflict leaves every job
\* record, the one it names and all the others, and the idempotency
\* registry as they were.
C23_RejectedChangesNothing ==
  [][(AckOrFail(last') /\ last'.resp \in {"NotFound", "Conflict"})
        => (jobs' = jobs /\ idem' = idem)]_vars

\* a request of the wrong worker has been refused for a leased job while
\* a second job and both keys are in the store
C23_Witness ==
  /\ AckOrFail(last)
  /\ last.resp = "Conflict"
  /\ last.job \in DOMAIN jobs
  /\ jobs[last.job].State = StateLeased
  /\ jobs[last.job].LeaseOwner # last.worker
  /\ DOMAIN jobs = JobIDs
  /\ DOMAIN idem = {"k1", "k2"}

\* no job is QUEUED with next_available_at = 0 or next_available_at <= now
NoneEligible ==
  \A id \in DOMAIN jobs :
    ~(/\ jobs[id].State = StateQueued
      /\ (jobs[id].NextAvailableAt = 0 \/ jobs[id].NextAvailableAt <= now))

\* C24: a poll answers NoJobAvailable only in a step taken at or after its
\* deadline in which, under the lock, no job is eligible; a poll starts to
\* wait only when its scan found no eligible job, so a poll that finds one at
\* its first scan returns it in that same step without waiting.
C24_NoJobOnlyAtDeadline ==
  [][/\ (last'.op = "poll" /\ last'.resp = "NoContent") =>
          /\ NoneEligible
          /\ \E q \in Pollers :
               /\ poll[q].pc = "woken"
               /\ poll'[q].pc = "idle"
               /\ poll[q].worker = last'.worker
               /\ poll[q].deadline <= now
     /\ (\E q \in Pollers : poll[q].pc # "waiting" /\ poll'[q].pc = "waiting")
          => NoneEligible
     /\ (\E q \in Pollers : poll[q].pc = "idle" /\ poll'[q].pc # "idle")
          => (NoneEligible /\ last'.op # "poll")
     /\ (last'.op = "poll" /\ last'.resp = "OK")
          => (waiters' = waiters /\ \A q \in Pollers : poll'[q].pc # "waiting" \/ poll[q].pc = "waiting")]_vars

\* a poll has timed out while the only job was leased to the other worker
C24_Witness ==
  /\ last.op = "poll"
  /\ last.resp = "NoContent"
  /\ now >= PollTimeout
  /\ \E j \in DOMAIN jobs :
       jobs[j].State = StateLeased /\ jobs[j].LeaseOwner # last.worker

\* the outcome the stated checks give a request of worker w for job j with
\* lease id l, the first check that applies deciding
Decision(w, j, l) ==
  IF j \notin DOMAIN jobs THEN "NotFound"
  ELSE IF jobs[j].State = StateDone THEN "OK"
  ELSE IF jobs[j].State # StateLeased \/ jobs[j].LeaseOwner # w THEN "Conflict"
  ELSE IF l # jobs[j].LeaseID THEN "Conflict"
  ELSE IF jobs[j].LeaseExpiresAt <= now THEN "Conflict"
  ELSE "Effect"

\* C25: every ack and every fail is answered as the checks NotFound, DONE,
\* holder, lease id, expiry decide in that order, and takes effect exactly
\* when all of them pass; the other of the two operations would have been
\* answered with the same response kind for the same request in the same
\* state.
C25_AckFailSameChecks ==
  [][AckOrFail(last') =>
       LET d == Decision(last'.worker, last'.job, last'.lease)
           kind == IF d = "Effect" THEN "OK" ELSE d
       IN  /\ last'.resp = kind
           /\ Status(Validate(last'.worker, last'.job, last'.lease)) = kind
           /\ Status(ValidateFail(last'.worker, last'.job, last'.lease)) = kind
           /\ (jobs' # jobs) <=> (d = "Effect")]_vars

\* a fail has been answered Success for a job that is DONE, as an ack is
C25_Witness ==
  /\ last.op = "fail"
  /\ last.resp = "OK"
  /\ last.job \in DOMAIN jobs
  /\ jobs[last.job].State = StateDone
  /\ jobs[last.job].LeaseID # last.lease

\* C26: an ack answered Success leaves the job it names DONE with an empty
\* lease_owner and lease_expires_at = 0, its attempts, lease_id,
\* next_available_at, payload, max_tries and id as they were, and every
\* other job as it was.
C26_AckEffect ==
  [][(last'.op = "ack" /\ last'.resp = "OK") =>
       /\ last'.job \in DOMAIN jobs
       /\ DOMAIN jobs' = DOMAIN jobs
       /\ jobs'[last'.job] =
            [jobs[last'.job] EXCEPT !.State = StateDone, !.LeaseOwner = "",
                                    !.LeaseExpiresAt = 0]
       /\ jobs'[last'.job].Attempts = jobs[last'.job].Attempts
       /\ jobs'[last'.job].LeaseID = jobs[last'.job].LeaseID
       /\ jobs'[last'.job].NextAvailableAt = jobs[last'.job].NextAvailableAt
       /\ jobs'[last'.job].Payload = jobs[last'.job].Payload
       /\ jobs'[last'.job].MaxTries = jobs[last'.job].MaxTries
       /\ \A j \in DOMAIN jobs \ {last'.job} : jobs'[j] = jobs[j]]_vars

\* a job that was failed once, with a backoff, and leased again has been
\* acked while the other job is leased
C26_Witness ==
  /\ last.op = "ack"
  /\ last.resp = "OK"
  /\ last.event = "job_acked"
  /\ last.job \in DOMAIN jobs
  /\ jobs[last.job].State = StateDone
  /\ jobs[last.job].Attempts = 1
  /\ jobs[last.job].LeaseID = 2
  /\ jobs[last.job].NextAvailableAt > 0
  /\ \E j \in DOMAIN jobs \ {last.job} : jobs[j].State = StateLeased

\* what a fail that takes effect does to job j in a step: attempts goes up
\* by exactly 1 and lease_id stays; below max_tries the job is QUEUED, its
\* lease fields cleared and next_available_at within now and
\* now + min(5 * 2^(attempts-1), 30) for the new attempts; otherwise it is
\* DEAD with lease_owner, lease_expires_at and next_available_at cleared
FailEffect(j) ==
  LET old == jobs[j]
      new == jobs'[j]
      a == old.Attempts + 1
      window == IF a >= 4 THEN 30 ELSE 5 * 2^(a - 1)
  IN  /\ new.Attempts = a
      /\ new.LeaseID = old.LeaseID
      /\ IF a < old.MaxTries
         THEN /\ new.State = StateQueued
              /\ new.LeaseOwner = ""
              /\ new.LeaseExpiresAt = 0
              /\ new.NextAvailableAt \in now..(now + window)
              /\ a = 1 => new.NextAvailableAt <= now + 5
              /\ a = 2 => new.NextAvailableAt <= now + 10
         ELSE /\ new.State = StateDead
              /\ new.LeaseOwner = ""
              /\ new.LeaseExpiresAt = 0
              /\ new.NextAvailableAt = 0

C28_FailSignalsWaiter ==
  [][(/\ last'.op = "fail"
      /\ last'.event = "job_retry_scheduled"
      /\ waiters # <<>>)
       => \E q \in Pollers :
            /\ poll[q].pc = "waiting"
            /\ poll'[q].pc = "woken"
            /\ Len(waiters') = Len(waiters) - 1]_vars

\* C29: in the step of a sweeper pass that re-queues a job whose lease ran
\* out, every poll that is blocked is woken: none stays among the waiters.
C29_SweepBroadcasts ==
  [][(/\ \E j \in DOMAIN jobs :
           /\ jobs[j].State = StateLeased
           /\ jobs'[j].State = StateQueued
           /\ jobs'[j].Attempts = jobs[j].Attempts
      /\ waiters # <<>>)
       => /\ waiters' = <<>>
          /\ \A q \in Pollers : poll[q].pc = "waiting" => poll'[q].pc = "woken"]_vars

\* C30: the step in which the deadline timer of a blocked poll fires wakes
\* that poll, and no poll is ever left blocked without a pending timer of
\* its own.
C30_TimerWakesOwner ==
  [][/\ \A q \in Pollers :
          (poll[q].pc = "waiting" /\ poll[q].timer /\ ~poll'[q].timer)
             => poll'[q].pc = "woken"
     /\ \A q \in Pollers :
          poll'[q].pc = "waiting" => poll'[q].timer]_vars

\* C31: a sweeper pass that re-queues anything, run with the clock reading
\* t it took before the lock, changes exactly the jobs that are LEASED with
\* 0 < lease_expires_at <= t: each becomes QUEUED with lease_owner empty,
\* lease_expires_at = 0 and next_available_at = 0, its lease_id, attempts
\* and payload as they were; every other job is left as it was.
C31_SweepEffect ==
  [][expiredLog' # expiredLog =>
       /\ DOMAIN jobs' = DOMAIN jobs
       /\ \E lag \in SweepLag :
            \A j \in DOMAIN jobs :
              IF /\ jobs[j].State = StateLeased
                 /\ jobs[j].LeaseExpiresAt > 0
                 /\ jobs[j].LeaseExpiresAt <= now - lag
              THEN /\ jobs'[j] = [jobs[j] EXCEPT !.State = StateQueued,
                                                !.LeaseOwner = "",
                                                !.LeaseExpiresAt = 0,
                                                !.NextAvailableAt = 0]
                   /\ jobs'[j].LeaseID = jobs[j].LeaseID
                   /\ jobs'[j].Attempts = jobs[j].Attempts
                   /\ jobs'[j].Payload = jobs[j].Payload
              ELSE jobs'[j] = jobs[j]]_vars

\* a pass has re-queued a job that carried the backoff of an earlier fail,
\* while the other job keeps a lease that has not run out
C31_Witness ==
  /\ \E j \in DOMAIN jobs :
       /\ jobs[j].State = StateQueued
       /\ jobs[j].Attempts = 1
       /\ jobs[j].LeaseID = 2
       /\ jobs[j].NextAvailableAt = 0
       /\ <<j, 2>> \in expiredLog
  /\ \E j \in DOMAIN jobs :
       jobs[j].State = StateLeased /\ jobs[j].LeaseExpiresAt > now

\* C32: a poll of worker w answered with a job changes that job and no
\* other: its state becomes LEASED, lease_owner w, lease_expires_at
\* now + 30 and lease_id one more than before, while attempts,
\* next_available_at, payload and max_tries stay; the answer carries that
\* job with the new lease_id.
C32_PollEffect ==
  [][(last'.op = "poll" /\ last'.resp = "OK") =>
       /\ last'.job \in DOMAIN jobs
       /\ DOMAIN jobs' = DOMAIN jobs
       /\ jobs'[last'.job] =
            [jobs[last'.job] EXCEPT !.State = StateLeased,
                                    !.LeaseOwner = last'.worker,
                                    !.LeaseExpiresAt = now + 30,
                                    !.LeaseID = jobs[last'.job].LeaseID + 1]
       /\ jobs'[last'.job].Attempts = jobs[last'.job].Attempts
       /\ jobs'[last'.job].NextAvailableAt = jobs[last'.job].NextAvailableAt
       /\ jobs'[last'.job].Payload = jobs[last'.job].Payload
       /\ jobs'[last'.job].MaxTries = jobs[last'.job].MaxTries
       /\ last'.lease = jobs'[last'.job].LeaseID
       /\ \A j \in DOMAIN jobs \ {last'.job} : jobs'[j] = jobs[j]]_vars

\* a job that was failed once has been leased again, after its backoff,
\* while the other job is in the store
C32_Witness ==
  /\ last.op = "poll"
  /\ last.resp = "OK"
  /\ jobs[last.job].State = StateLeased
  /\ jobs[last.job].LeaseOwner = last.worker
  /\ jobs[last.job].LeaseID = 2
  /\ last.lease = 2
  /\ jobs[last.job].Attempts = 1
  /\ jobs[last.job].NextAvailableAt > 0
  /\ jobs[last.job].LeaseExpiresAt = now + 30
  /\ DOMAIN jobs = JobIDs

\* the step adds exactly one job, under an id that was not in the store, as
\* a fresh record, and leaves every job that was there as it was
OneJobAdded ==
  /\ \E id \in JobIDs \ DOMAIN jobs :
       /\ DOMAIN jobs' = DOMAIN jobs \cup {id}
       /\ jobs'[id].ID = id
       /\ jobs'[id].State = StateQueued
       /\ jobs'[id].Attempts = 0
       /\ jobs'[id].LeaseID = 0
       /\ jobs'[id].MaxTries = 3
       /\ jobs'[id].LeaseOwner = ""
       /\ jobs'[id].LeaseExpiresAt = 0
       /\ jobs'[id].NextAvailableAt = 0
  /\ \A j \in DOMAIN jobs : jobs'[j] = jobs[j]

\* the step answers the enqueue that inserted job last'.job, holds the
\* store lock since that insertion, and is the first to report that id
AnswersItsInsert ==
  /\ last'.job \in DOMAIN jobs
  /\ last'.job \notin DOMAIN enqueuedLog
  /\ \E e \in Enqueuers :
       /\ jobsMu = e
       /\ enq[e].pc = "inserted"
       /\ enq[e].id = last'.job
       /\ enq[e].key = last'.key

\* the steps of an enqueue without a key leave the registry as it is, and
\* such an enqueue is answered only by creating a job or with BadRequest
KeylessSkipsRegistry ==
  /\ (\E e \in Enqueuers :
        enq'[e] # enq[e] /\ (enq[e].key = "" /\ enq'[e].key = "")) => idem' = idem
  /\ (last'.op = "enqueue" /\ last'.key = "") =>
        \/ last'.resp = "OK" /\ last'.event = "job_enqueued"
        \/ last'.resp = "BadRequest"

\* C33 as stated: the store grows only by one fresh job at a time, every
\* enqueue answered Success has added such a job, and an enqueue without a
\* key does so without touching the registry.
C33_EverySuccessAddsJob ==
  [][/\ (DOMAIN jobs' # DOMAIN jobs) => OneJobAdded
     /\ (last'.op = "enqueue" /\ last'.resp = "OK") => AnswersItsInsert
     /\ KeylessSkipsRegistry]_vars

\* C33 amended: the store grows only by one fresh job at a time; an
\* enqueue answered Success has either added such a job or is the replay
\* of a committed key, which returns the committed id and adds nothing; an
\* enqueue without a key that is answered Success has always added a job,
\* without touching the registry.
C33_EnqueueEffect ==
  [][/\ (DOMAIN jobs' # DOMAIN jobs) => OneJobAdded
     /\ (last'.op = "enqueue" /\ last'.resp = "OK") =>
          \/ AnswersItsInsert
          \/ /\ last'.key # ""
             /\ last'.key \in DOMAIN idem
             /\ idem[last'.key] = last'.job
             /\ jobs' = jobs
             /\ idem' = idem
     /\ KeylessSkipsRegistry]_vars

\* an enqueue without a key has created the second job, beside a job that
\* is already leased, with nothing in the registry
C33_Witness ==
  /\ last.op = "enqueue"
  /\ last.resp = "OK"
  /\ last.key = ""
  /\ last.job = "j2"
  /\ jobs["j2"].State = StateQueued
  /\ jobs["j1"].State = StateLeased
  /\ idem = <<>>

\* C34: in the step in which a keyed enqueue that created a job signals a
\* blocked poll, the job is in the store and the key is already committed
\* to the job's id, no longer PENDING.
C34_SignalAfterCommit ==
  [][\A e \in Enqueuers :
       (/\ enq[e].key # ""
        /\ enq'[e].pc = "inserted" \/ (enq[e].pc = "inserted" /\ enq'[e].pc = "idle")
        /\ \E q \in Pollers : poll[q].pc = "waiting" /\ poll'[q].pc = "woken")
         => /\ enq[e].key \in DOMAIN idem'
            /\ idem'[enq[e].key] # PENDING
            /\ idem'[enq[e].key] \in DOMAIN jobs']_vars

\* C35: while now < lease_expires_at, a step changes the state, the owner
\* or the lease_id of a LEASED job only if it is the ack or fail of its
\* holder with its lease_id, answered Success; no sweeper pass, whatever
\* the age of its clock reading, takes such a lease back.
C35_UnexpiredLeaseKept ==
  [][\A j \in DOMAIN jobs :
       (/\ jobs[j].State = StateLeased
        /\ now < jobs[j].LeaseExpiresAt
        /\ \/ jobs'[j].State # StateLeased
           \/ jobs'[j].LeaseOwner # jobs[j].LeaseOwner
           \/ jobs'[j].LeaseID # jobs[j].LeaseID)
         => /\ AckOrFail(last')
            /\ last'.resp = "OK"
            /\ last'.job = j
            /\ last'.worker = jobs[j].LeaseOwner
            /\ last'.lease = jobs[j].LeaseID
            /\ expiredLog' = expiredLog]_vars

\* a sweeper pass has taken back the lease of one job while the other job
\* holds a lease with at most 5 seconds left, and has left it alone
C35_Witness ==
  /\ \E j \in DOMAIN jobs :
       /\ jobs[j].State = StateQueued
       /\ <<j, jobs[j].LeaseID>> \in expiredLog
  /\ \E j \in DOMAIN jobs :
       /\ jobs[j].State = StateLeased
       /\ jobs[j].LeaseOwner = "w1"
       /\ now < jobs[j].LeaseExpiresAt
       /\ jobs[j].LeaseExpiresAt <= now + 5

\* C36: attempts of a job changes only in the step of a fail of that job
\* that passes every check, and then by exactly 1; a job enters the store
\* with attempts = 0; the sweeper pass that takes a lease back leaves
\* attempts as it is and the job QUEUED and eligible at once, whatever the
\* number of leases it has had; a job becomes DEAD only by a fail, so a job
\* whose leases only run out is leased again and again and is never DEAD.
C36_AttemptsOnlyByFail ==
  [][/\ \A j \in DOMAIN jobs :
          jobs'[j].Attempts # jobs[j].Attempts =>
            /\ jobs'[j].Attempts = jobs[j].Attempts + 1
            /\ last'.op = "fail" /\ last'.resp = "OK" /\ last'.job = j
            /\ jobs[j].State = StateLeased
            /\ jobs[j].LeaseOwner = last'.worker
            /\ jobs[j].LeaseID = last'.lease
            /\ jobs[j].LeaseExpiresAt > now
     /\ \A j \in DOMAIN jobs' \ DOMAIN jobs : jobs'[j].Attempts = 0
     /\ \A j \in DOMAIN jobs :
          <<j, jobs[j].LeaseID>> \in expiredLog' \ expiredLog =>
            /\ jobs'[j].Attempts = jobs[j].Attempts
            /\ jobs'[j].State = StateQueued
            /\ jobs'[j].NextAvailableAt = 0
     /\ \A j \in DOMAIN jobs :
          (jobs'[j].State = StateDead /\ jobs[j].State # StateDead) =>
            (last'.op = "fail" /\ last'.job = j)
     /\ \A j \in DOMAIN jobs' :
          jobs'[j].Attempts = 0 => jobs'[j].State # StateDead]_vars

\* a job never failed has had two leases run out and holds its third
C36_Witness ==
  \E j \in DOMAIN jobs :
    /\ jobs[j].State = StateLeased
    /\ jobs[j].Attempts = 0
    /\ jobs[j].LeaseID >= 3
    /\ {<<j, 1>>, <<j, 2>>} \subseteq expiredLog
    /\ now >= 2 * LeaseDuration

\* C37: a key that is PENDING does not stay PENDING: the enqueue that
\* reserved it goes on, among polls, acks, fails, sweeper passes and other
\* enqueues, until the key is committed or released; and a PENDING key
\* changes only by the release of the request that reserved it, answered
\* BadRequest, or by the commit of that request to the id of the job it
\* has just inserted.
C37_PendingResolved ==
  /\ \A k \in Keys \ {""} :
       (k \in DOMAIN idem /\ idem[k] = PENDING)
         ~> (k \notin DOMAIN idem \/ idem[k] # PENDING)
  /\ [][\A k \in DOMAIN idem :
          (idem[k] = PENDING /\ (k \notin DOMAIN idem' \/ idem'[k] # PENDING)) =>
             /\ last'.op = "enqueue"
             /\ last'.key = k
             /\ \E e \in Enqueuers :
                  /\ enq[e].key = k
                  /\ enq[e].pc \in {"reserved", "inserted"}
                  /\ enq'[e].pc = "idle"
                  /\ IF k \in DOMAIN idem'
                     THEN /\ idem'[k] = enq[e].id
                          /\ idem'[k] \in DOMAIN jobs
                          /\ last'.resp = "OK"
                          /\ last'.job = idem'[k]
                     ELSE /\ last'.resp = "BadRequest"
                          /\ enq[e].body \notin Payloads]_vars

\* the reservation of k1 has been committed to a new job while the other
\* request holds k2 PENDING and had to wait for the store lock
C37_Witness ==
  /\ last.op = "enqueue"
  /\ last.resp = "OK"
  /\ last.event = "job_enqueued"
  /\ last.key = "k1"
  /\ idem["k1"] = last.job
  /\ "k2" \in DOMAIN idem
  /\ idem["k2"] = PENDING
  /\ \E e \in Enqueuers : enq[e].pc = "reserved" /\ enq[e].key = "k2" /\ enq[e].body \in Payloads

\* At every moment of the locking protocol: idemMu has at most one holder;
\* jobsMu is held only by an enqueue between its insert and its response; a
\* request that holds idemMu and jobsMu took jobsMu first (at the insert) and
\* idemMu second (at the commit); a request that holds idemMu alone ends its
\* section whoever holds jobsMu, so it never waits for jobsMu; a request in
\* the commit section ends it; a poll that waits on the condition, or was
\* woken and has not yet resumed, does not hold jobsMu; and whenever jobsMu
\* is free, the sweeper, ack, fail, a due timer callback and a reserved
\* enqueue can take it.
LockOrder ==
  /\ Cardinality(IdemMuHolders) <= 1
  /\ jobsMu # "" => enq[jobsMu].pc \in {"inserted", "committing"}
  /\ \A e \in Enqueuers :
       /\ enq[e].pc \in {"inserted", "committing"} => jobsMu = e
       /\ enq[e].pc = "reserving" => jobsMu # e /\ ENABLED ReserveUnlock(e)
       /\ enq[e].pc = "releasing" => jobsMu # e /\ ENABLED ReleaseUnlock(e)
       /\ enq[e].pc = "committing" => ENABLED CommitUnlock(e)
       /\ (enq[e].pc = "inserted" /\ IdemMuHolders = {}) => ENABLED LockIdemCommit(e)
  /\ \A q \in Pollers : poll[q].pc \in {"waiting", "woken"} => jobsMu # q
  /\ jobsMu = "" =>
       /\ ENABLED Sweep
       /\ ENABLED Ack("w1", NoSuchJob, 1)
       /\ ENABLED Fail("w1", NoSuchJob, 1)
       /\ \A q \in Pollers :
            (poll[q].timer /\ now >= poll[q].deadline) => ENABLED TimerFire(q)
       /\ \A e \in Enqueuers :
            (enq[e].pc = "reserved" /\ enq[e].body \in Payloads) => ENABLED EnqInsert(e)

\* C38: the locking protocol cannot deadlock.  The lock order above holds
\* at every moment, and under fair scheduling a held jobsMu is always
\* released, a held idemMu is always released, and an enqueue that waits for
\* jobsMu with its key reserved always gets it.
C38_NoDeadlock ==
  /\ []LockOrder
  /\ \A e \in Enqueuers : (jobsMu = e) ~> (jobsMu = "")
  /\ \A e \in Enqueuers : (e \in IdemMuHolders) ~> (e \notin IdemMuHolders)
  /\ \A e \in Enqueuers :
       (enq[e].pc = "reserved" /\ enq[e].body \in Payloads) ~> (enq[e].pc = "inserted")

\* one enqueue holds jobsMu and waits for idemMu, which the other enqueue
\* holds for its reservation, while a woken poll waits for jobsMu
C38_Witness ==
  /\ jobsMu = "e1"
  /\ enq["e1"].pc = "inserted"
  /\ enq["e2"].pc = "reserving"
  /\ poll["p1"].pc = "woken"

TypeOK ==
  /\ now \in 0..MaxTimeLong
  /\ DOMAIN jobs \subseteq JobIDs
  /\ DOMAIN idem \subseteq Keys \ {""}
  /\ jobsMu \in {""} \cup Enqueuers
  /\ \A n \in DOMAIN waiters : waiters[n] \in Pollers
====
